---- MODULE Spec2Model ----
(***************************************************************************)
(* MCPServerManager (Agents/mcp_server_manager.py): a registry of MCP      *)
(* server handles (_servers), their cached tool lists (_tools) and the     *)
(* loaded configuration (_config).  Every coroutine of the class is        *)
(* modelled as a sequence of steps that end at its await points            *)
(* (connect, list_tools, cleanup, asyncio.sleep).                          *)
(***************************************************************************)
EXTENDS Integers, Sequences, FiniteSets, TLC

\* ---------------------------------------------------------------- bounds
\* Number of server objects a behaviour may hand to add_server, and of
\* add_server calls it may make.
MaxHandles == 3
\* Longest tool list a server reports.
MaxToolLen == 1

\* Server names that occur in configurations and in add_server calls.
Names == {"a", "b"}
\* Tool descriptors a server may report.
ToolIds == {"t1"}
\* Tasks that may call into the shared manager (line 122).
Callers == {1, 2}
\* The single cooperative caller that drives the manager in Spec.
SeqCallers == {1}

\* The value standing for "no handle" (Python None).
NoHandle == 0
Handles == 1..MaxHandles

\* All tool lists list_tools() may return.
ToolLists == UNION {[1..n -> ToolIds] : n \in 0..MaxToolLen}

\* ------------------------------------------------------ Python dict model
\* _servers is a dict.  CPython keeps its items in an entry array in
\* insertion order: a delete blanks the item's slot, a new key takes the
\* next unused slot.  The model keeps the live items in array order, each
\* with its slot, and (in dk) the array's slots used so far (nentries) and
\* still free (usable).
EmptyServers == <<>>
\* The dict of line 9 starts without an entry array.
EmptyKeys == [nentries |-> 0, usable |-> 0]
\* Slots of the entry array CPython builds for a dict without live items ...
DictUsable == 5
\* ... and for a dict with one to five live items.
DictUsableGrown == 10
\* _tools is only read by key and cleared: a function on the cached names.
EmptyTools == [n \in {} |-> <<>>]

ServerNames(s) == {s[i].name : i \in 1..Len(s)}

\* self._servers.get(name)
ServerGet(s, n) ==
    IF n \in ServerNames(s)
    THEN (CHOOSE e \in {s[i] : i \in 1..Len(s)} : e.name = n).h
    ELSE NoHandle

\* A new key that finds no free slot makes the dict build a new entry
\* array, sized by the number of live items, ...
RebuiltUsable(live) == IF live = 0 THEN DictUsable ELSE DictUsableGrown
\* ... where the live items move to the first slots.
Compact(s) == [i \in 1..Len(s) |-> [s[i] EXCEPT !.slot = i]]

\* The entry array's slots after self._servers[name] = server.
KeysAfterSet(s, n, k) ==
    IF n \in ServerNames(s) THEN k
    ELSE IF k.usable <= 0
    THEN [nentries |-> Len(s) + 1, usable |-> RebuiltUsable(Len(s)) - Len(s) - 1]
    ELSE [nentries |-> k.nentries + 1, usable |-> k.usable - 1]

\* self._servers[name] = server : an existing key keeps its slot, a new
\* key is stored in the next unused one.
ServerSet(s, n, h, k) ==
    IF n \in ServerNames(s)
    THEN [i \in 1..Len(s) |-> IF s[i].name = n THEN [s[i] EXCEPT !.h = h] ELSE s[i]]
    ELSE Append(IF k.usable <= 0 THEN Compact(s) ELSE s,
                [name |-> n, h |-> h, slot |-> KeysAfterSet(s, n, k).nentries])

\* del self._servers[name]
ServerDel(s, n) == SelectSeq(s, LAMBDA e : e.name # n)

\* self._tools[name] = tools
ToolsSet(t, n, v) == [x \in (DOMAIN t) \cup {n} |-> IF x = n THEN v ELSE t[x]]

\* ------------------------------------------------------- configurations
\* One entry of config['servers']: "valid" has params.command and
\* params.args; "malformed" lacks them (line 31 raises on it).
EntryKinds == {"valid", "malformed"}
Entries == [name : Names, kind : EntryKinds]

\* The items of config['servers'] in file order, names unique (dict keys).
ConfigSeqs ==
    {<<>>} \cup {<<e>> : e \in Entries}
           \cup {<<e, f>> : <<e, f>> \in {p \in Entries \X Entries : p[1].name # p[2].name}}

\* Values of self._config, which is whatever yaml.safe_load returned:
\* "dict0" is {} (the constructor's value, or an empty mapping in the
\* file); "none" is None (an empty file); "falsy" is another falsy value
\* that is no mapping ([], '', 0); "nonmap" is a truthy value that is no
\* mapping (a list, a string, a number); "noitems" is a non-empty mapping
\* whose 'servers' is no mapping (None, a list, a scalar); "doc" is a
\* non-empty mapping whose 'servers' is absent or a mapping, with the items
\* .servers.
Config0 == [kind |-> "dict0", servers |-> <<>>]
OddKinds == {"none", "falsy", "nonmap", "noitems"}
Configs ==
    {Config0}
    \cup {[kind |-> k, servers |-> <<>>] : k \in OddKinds}
    \cup {[kind |-> "doc", servers |-> s] : s \in ConfigSeqs}

\* Python truthiness of self._config (line 25: `if not self._config`).
ConfigTruthy(cfg) == cfg.kind \in {"doc", "nonmap", "noitems"}

\* Line 29, self._config.get('servers', {}).items(), raises AttributeError:
\* the value has no .get, or its 'servers' has no .items.
ConfigItemsRaises(cfg) == cfg.kind \in OddKinds

\* ------------------------------------------------------------------ state
VARIABLES
    config,      \* self._config
    servers,     \* self._servers
    dk,          \* the entry array of self._servers: slots used and free
    tools,       \* self._tools
    nextHandle,  \* number the next new server object gets
    pc,          \* per caller: the await point its coroutine is suspended at
    frame,       \* per caller: the locals of its running coroutine
    call,        \* per caller: record of its current / last finished call
    hist         \* what has happened to the server objects over the whole run

vars == <<config, servers, dk, tools, nextHandle, pc, frame, call, hist>>

\* Locals of a coroutine: loop position, the iterated items, name/server.
Frame0 ==
    [idx |-> 0, entries |-> <<>>, snap |-> <<>>, size |-> 0, left |-> 0,
     name |-> "", h |-> NoHandle, origin |-> ""]

\* What is remembered of a call: its operation, how it ended, the registry
\* before it, and what each collaborator call made on its behalf did.
NewCall(op) ==
    [op |-> op, status |-> "running", name |-> "", h |-> NoHandle,
     pre_servers |-> servers, pre_tools |-> tools,
     pre_config |-> Config0,
     entries |-> <<>>, loads |-> 0, loadOK |-> FALSE,
     retHandle |-> NoHandle, retNone |-> FALSE, retTools |-> <<>>,
     passed |-> <<>>, reports |-> <<>>, result |-> <<>>,
     attempted |-> {}, connOK |-> {}, connFail |-> {},
     fetchOK |-> {}, fetchFail |-> {}, fetched |-> EmptyTools,
     processed |-> {}, log |-> <<>>]

NoCall == [NewCall("none") EXCEPT !.status = "none",
                                  !.pre_servers = EmptyServers,
                                  !.pre_tools = EmptyTools]

\* The run so far: the names add_server was called with and whether one
\* was used twice, the servers whose connect() succeeded, the servers
\* cleanup() was called on, whether load_config has stored a document (now,
\* and when the latest call began), the caller that began the latest call,
\* and per name the list its latest successful list_tools() returned.
Hist0 ==
    [used |-> {}, reused |-> FALSE, connected |-> {}, cleaned |-> {},
     loaded |-> FALSE, loadedAtStart |-> FALSE, lastStart |-> 0,
     lastFetched |-> EmptyTools]

\* __init__ (lines 8-11)
Init ==
    /\ config = Config0
    /\ servers = EmptyServers
    /\ dk = EmptyKeys
    /\ tools = EmptyTools
    /\ nextHandle = 1
    /\ pc = [c \in Callers |-> "idle"]
    /\ frame = [c \in Callers |-> Frame0]
    /\ call = [c \in Callers |-> NoCall]
    /\ hist = Hist0

\* The coroutine of caller c ends (returns or raises).
Finish(c, cl, st) ==
    /\ pc' = [pc EXCEPT ![c] = "idle"]
    /\ frame' = [frame EXCEPT ![c] = Frame0]
    /\ call' = [call EXCEPT ![c] = [cl EXCEPT !.status = st]]

\* The coroutine of caller c suspends at await point `label`.
Suspend(c, label, fr, cl) ==
    /\ pc' = [pc EXCEPT ![c] = label]
    /\ frame' = [frame EXCEPT ![c] = fr]
    /\ call' = [call EXCEPT ![c] = cl]

\* ------------------------------------------------------------ load_config
\* load_config (lines 13-21): open() or yaml.safe_load() raises and
\* _config is left alone, or _config becomes the parsed document.
LoadConfig(c) ==
    /\ pc[c] = "idle"
    /\ \/ /\ config' = config
          /\ Finish(c, NewCall("load"), "raised")
       \/ \E cfg \in Configs :
            /\ config' = cfg
            /\ Finish(c, [NewCall("load") EXCEPT !.loads = 1, !.loadOK = TRUE],
                      "returned")
    /\ UNCHANGED <<servers, tools, nextHandle, dk>>

\* ------------------------------------------------------------- add_server
\* Variant of AddFailServers: the except branch forgets the delete.
AddFailServers_Keep(s, n) == s
\* Lines 58-62, the except branch: the name is removed from _servers ...
AddFailServers(s, n) == IF n \in ServerNames(s) THEN ServerDel(s, n) ELSE s
\* ... and _tools is not touched.
AddFailTools(t, n) == t

\* Variant of AddOkServers: a name that is already registered keeps its server.
AddOkServers_KeepOld(s, n, h, k) ==
    IF n \in ServerNames(s) THEN s ELSE ServerSet(s, n, h, k)
\* Line 52: self._servers[name] = server
AddOkServers(s, n, h, k) == ServerSet(s, n, h, k)
\* Variant of AddOkTools: the fetched list is not cached.
AddOkTools_Skip(t, n, v) == t
\* Line 56: self._tools[name] = tools
AddOkTools(t, n, v) == ToolsSet(t, n, v)

\* The for loop of initialize_servers (lines 29-43) from entry i on, up to
\* the next await (server.connect() inside add_server) or the end.  Line 31
\* indexes params/command/args and line 33 builds the server, both outside
\* the try of line 38: a failure there leaves the coroutine.
InitLoop(c, i, entries, cl) ==
    IF i > Len(entries)
    THEN /\ Finish(c, cl, "returned")
         /\ nextHandle' = nextHandle
    ELSE IF entries[i].kind = "malformed"
    THEN /\ Finish(c, cl, "raised")
         /\ nextHandle' = nextHandle
    ELSE \/ /\ Finish(c, cl, "raised")
            /\ nextHandle' = nextHandle
         \/ /\ Suspend(c, "connect",
                       [Frame0 EXCEPT !.idx = i, !.entries = entries,
                                      !.name = entries[i].name,
                                      !.h = nextHandle, !.origin = "init"],
                       [cl EXCEPT !.attempted = @ \cup {entries[i].name}])
            /\ nextHandle' = nextHandle + 1

\* add_server has ended inside caller c: a direct call ends with it; inside
\* initialize_servers a raise is caught (lines 41-43) and the loop goes on.
AddEnds(c, cl, st) ==
    IF frame[c].origin = "add"
    THEN /\ Finish(c, cl, st)
         /\ nextHandle' = nextHandle
    ELSE InitLoop(c, frame[c].idx + 1, frame[c].entries, cl)

\* add_server(name, server) called directly, up to `await server.connect()`.
\* The caller passes any server object: a new one (numbered nextHandle), or
\* one the manager has seen before, registered or not.  Every call moves
\* nextHandle on, so that MaxHandles bounds the add_server calls of a run.
AddStart(c) ==
    /\ pc[c] = "idle"
    /\ nextHandle <= MaxHandles
    /\ \E n \in Names, h \in Handles :
         /\ h <= nextHandle
         /\ Suspend(c, "connect",
                    [Frame0 EXCEPT !.name = n, !.h = h, !.origin = "add"],
                    [NewCall("add") EXCEPT !.name = n, !.h = h,
                                           !.attempted = {n}])
         /\ nextHandle' = nextHandle + 1
    /\ UNCHANGED <<config, servers, tools, dk>>

\* `await server.connect()` (line 51) completes.
ConnectDone(c) ==
    /\ pc[c] = "connect"
    /\ LET n == frame[c].name IN
       \/ /\ servers' = AddOkServers(servers, n, frame[c].h, dk)
          /\ dk' = KeysAfterSet(servers, n, dk)
          /\ tools' = tools
          /\ Suspend(c, "list_tools", frame[c],
                     [call[c] EXCEPT !.connOK = @ \cup {n}])
          /\ nextHandle' = nextHandle
       \/ /\ servers' = AddFailServers(servers, n)
          /\ dk' = dk
          /\ tools' = AddFailTools(tools, n)
          /\ AddEnds(c, [call[c] EXCEPT !.connFail = @ \cup {n}], "raised")
    /\ UNCHANGED config

\* `await server.list_tools()` (line 55) completes.
ListToolsDone(c) ==
    /\ pc[c] = "list_tools"
    /\ LET n == frame[c].name IN
       \/ \E v \in ToolLists :
            /\ tools' = AddOkTools(tools, n, v)
            /\ servers' = servers
            /\ AddEnds(c, [call[c] EXCEPT !.fetchOK = @ \cup {n},
                                          !.fetched = ToolsSet(@, n, v)],
                       "returned")
       \/ /\ servers' = AddFailServers(servers, n)
          /\ tools' = AddFailTools(tools, n)
          /\ AddEnds(c, [call[c] EXCEPT !.fetchFail = @ \cup {n}], "raised")
    /\ UNCHANGED <<config, dk>>

\* The caller cancels its task while add_server awaits connect() or
\* list_tools(): asyncio.CancelledError is raised at the await.  It is a
\* BaseException, so neither `except Exception` (line 58, line 41) runs:
\* add_server, and initialize_servers around it, end with nothing undone.
CancelAdd(c) ==
    /\ pc[c] \in {"connect", "list_tools"}
    /\ Finish(c, call[c], "cancelled")
    /\ UNCHANGED <<config, servers, tools, nextHandle, dk>>

\* ----------------------------------------------------- initialize_servers
\* initialize_servers up to its first await: load_config() when _config is
\* falsy (lines 25-26), then _config.get('servers', {}).items() (line 29),
\* then the loop.
\* Variant of InitOrder: the entries are taken last to first.
InitOrder_Reversed(entries) ==
    [i \in 1..Len(entries) |-> entries[Len(entries) + 1 - i]]
\* Line 29: .items() yields the entries in the order of the file.
InitOrder(entries) == entries

InitRun(c, cfg, cl) ==
    /\ nextHandle + Len(cfg.servers) - 1 <= MaxHandles
    /\ config' = cfg
    /\ IF ConfigItemsRaises(cfg)
       THEN /\ Finish(c, cl, "raised")
            /\ nextHandle' = nextHandle
       ELSE InitLoop(c, 1, InitOrder(cfg.servers),
                     [cl EXCEPT !.entries = cfg.servers])

InitStart(c) ==
    /\ pc[c] = "idle"
    /\ IF ConfigTruthy(config)
       THEN InitRun(c, config, NewCall("init"))
       ELSE \/ /\ config' = config
               /\ Finish(c, [NewCall("init") EXCEPT !.loads = 1], "raised")
               /\ nextHandle' = nextHandle
            \/ \E cfg \in Configs :
                 InitRun(c, cfg, [NewCall("init") EXCEPT !.loads = 1,
                                                         !.loadOK = TRUE])
    /\ UNCHANGED <<servers, tools, dk>>

\* ---------------------------------------------------------- refresh_tools
\* Line 84 iterates the live dict.  The iterator holds the dict's size when
\* the loop began (size), the slot it looks at next (pos) and the number of
\* items it has still to yield (left).  The live items it has not passed:
IterAhead(pos, s) == SelectSeq(s, LAMBDA e : e.slot >= pos)

\* Python raises RuntimeError from the for statement when the dict's size
\* is not the one the loop began with ("changed size during iteration"),
\* and when it finds an item ahead although it has yielded as many as the
\* loop began with ("keys changed during iteration").
RefreshIterRaises(size, pos, left, s) ==
    \/ Len(s) # size
    \/ IterAhead(pos, s) # <<>> /\ left = 0

\* Line 88: self._tools[name] = tools
RefreshOkTools(t, n, v) == ToolsSet(t, n, v)
\* Variant of RefreshFailTools: a failed fetch empties the cached list.
RefreshFailTools_Empty(t, n) == ToolsSet(t, n, <<>>)
\* Lines 90-91: the failure is printed; the cached list stays.
RefreshFailTools(t, n) == t

\* The for loop of refresh_tools (lines 84-91) from slot pos on, up to
\* the next `await server.list_tools()` or the end; in the frame, idx is
\* the slot the iterator looks at next.
RefreshLoop(c, pos, left, size, cl) ==
    IF RefreshIterRaises(size, pos, left, servers)
    THEN Finish(c, cl, "raised")
    ELSE IF IterAhead(pos, servers) = <<>>
    THEN Finish(c, cl, "returned")
    ELSE LET e == Head(IterAhead(pos, servers)) IN
         Suspend(c, "refresh_fetch",
                 [Frame0 EXCEPT !.idx = e.slot + 1, !.left = left - 1,
                                !.size = size, !.name = e.name, !.h = e.h],
                 cl)

RefreshStart(c) ==
    /\ pc[c] = "idle"
    /\ RefreshLoop(c, 1, Len(servers), Len(servers), NewCall("refresh"))
    /\ UNCHANGED <<config, servers, tools, nextHandle, dk>>

\* `await server.list_tools()` (line 87) completes.
RefreshFetchDone(c) ==
    /\ pc[c] = "refresh_fetch"
    /\ LET n == frame[c].name IN
       \/ \E v \in ToolLists :
            /\ tools' = RefreshOkTools(tools, n, v)
            /\ RefreshLoop(c, frame[c].idx, frame[c].left, frame[c].size,
                           [call[c] EXCEPT !.fetchOK = @ \cup {n},
                                           !.fetched = ToolsSet(@, n, v)])
       \/ /\ tools' = RefreshFailTools(tools, n)
          /\ RefreshLoop(c, frame[c].idx, frame[c].left, frame[c].size,
                         [call[c] EXCEPT !.fetchFail = @ \cup {n}])
    /\ UNCHANGED <<config, servers, nextHandle, dk>>

\* ------------------------------------------------------------------ close
\* Line 96: the loop runs over list(self._servers.items()), a copy ...
CloseSnapshot(s) == s
\* Variant of CloseIterRaises: the loop runs over the live dict.
CloseIterRaises_Live(size, s) == Len(s) # size
\* ... so the deletes of line 117 never make the for statement raise.
CloseIterRaises(size, s) == FALSE

\* Lines 110 and 113: `except Exception` around terminate / poll / kill.
CloseCatches(step) == step \in {"terminate", "poll", "kill"}

\* Lines 115-117, the finally branch.
CloseFinallyServers(s, n) == IF n \in ServerNames(s) THEN ServerDel(s, n) ELSE s
\* Variant of CloseClearTools: the cache is not cleared.
CloseClearTools_Keep(t) == t
\* Line 118: self._tools.clear()
CloseClearTools(t) == EmptyTools

\* The for loop of close (lines 96-117) from item i of the copy on, up to
\* the next `await server.cleanup()`, or line 118 and the end.  srv is
\* _servers as the previous iteration left it.
CloseLoop(c, i, snap, srv, cl) ==
    /\ servers' = srv
    /\ IF CloseIterRaises(Len(snap), srv)
       THEN /\ tools' = tools
            /\ Finish(c, cl, "raised")
       ELSE IF i > Len(snap)
       THEN /\ tools' = CloseClearTools(tools)
            /\ Finish(c, cl, "returned")
       ELSE /\ tools' = tools
            /\ Suspend(c, "close_cleanup",
                       [Frame0 EXCEPT !.idx = i, !.snap = snap,
                                      !.name = snap[i].name, !.h = snap[i].h],
                       cl)

CloseStart(c) ==
    /\ pc[c] = "idle"
    /\ CloseLoop(c, 1, CloseSnapshot(servers), servers, NewCall("close"))
    /\ UNCHANGED <<config, nextHandle, dk>>

\* A collaborator call made by close on the current item, and its outcome.
Logged(c, op, res) ==
    [name |-> frame[c].name, h |-> frame[c].h, op |-> op, res |-> res]

\* One iteration's body has ended for the current item: the finally branch
\* runs, then the loop goes on.
CloseItemDone(c, events) ==
    CloseLoop(c, frame[c].idx + 1, frame[c].snap,
              CloseFinallyServers(servers, frame[c].name),
              [call[c] EXCEPT !.processed = @ \cup {frame[c].h},
                              !.log = @ \o events])

\* terminate(), poll() or kill() raised: caught by line 110 (or 113) and
\* the loop goes on; uncaught, the finally branch runs and close raises.
CloseStepFails(c, step, events) ==
    IF CloseCatches(step)
    THEN CloseItemDone(c, events)
    ELSE /\ servers' = CloseFinallyServers(servers, frame[c].name)
         /\ tools' = tools
         /\ Finish(c, [call[c] EXCEPT !.processed = @ \cup {frame[c].h},
                                      !.log = @ \o events],
                   "raised")

\* Variant of TerminateIssued: the process is terminated whenever there is one.
TerminateIssued_Always(cleanupRes, hasProcess) == hasProcess
\* Lines 101-106: terminate() is called in the except branch of cleanup(),
\* when `hasattr(server, 'process') and server.process` holds.
TerminateIssued(cleanupRes, hasProcess) == cleanupRes = "raised" /\ hasProcess

\* Variant of KillIssued: kill() is called whatever poll() returned.
KillIssued_Always(pollRes) == TRUE
\* Line 108: kill() is called when poll() is None, the process still running.
KillIssued(pollRes) == pollRes = "running"

\* `await server.cleanup()` (line 100) completes.  When it raised, line 104
\* looks for server.process, and line 106 terminates it before the
\* `await asyncio.sleep(1)` of line 107.
CleanupDone(c) ==
    /\ pc[c] = "close_cleanup"
    /\ \E res \in {"ok", "raised"}, hasProcess \in BOOLEAN :
         LET seen == <<Logged(c, "cleanup", res)>> \o
                     (IF res = "raised"
                      THEN <<Logged(c, "process", IF hasProcess THEN "yes" ELSE "no")>>
                      ELSE <<>>)
         IN  IF TerminateIssued(res, hasProcess)
             THEN \/ CloseStepFails(c, "terminate",
                                    seen \o <<Logged(c, "terminate", "raised")>>)
                  \/ /\ Suspend(c, "close_sleep", frame[c],
                                [call[c] EXCEPT !.log = @ \o seen \o
                                    <<Logged(c, "terminate", "ok")>>])
                     /\ UNCHANGED <<servers, tools>>
             ELSE CloseItemDone(c, seen)
    /\ UNCHANGED <<config, nextHandle, dk>>

\* `await asyncio.sleep(1)` (line 107) completes: poll(), then kill() when
\* the process is still running (lines 108-109).
SleepDone(c) ==
    /\ pc[c] = "close_sleep"
    /\ \E pollRes \in {"raised", "exited", "running"} :
         LET seen == <<Logged(c, "sleep", "done"), Logged(c, "poll", pollRes)>>
         IN  IF pollRes = "raised"
             THEN CloseStepFails(c, "poll", seen)
             ELSE IF KillIssued(pollRes)
             THEN \/ CloseItemDone(c, seen \o <<Logged(c, "kill", "ok")>>)
                  \/ CloseStepFails(c, "kill",
                                    seen \o <<Logged(c, "kill", "raised")>>)
             ELSE CloseItemDone(c, seen)
    /\ UNCHANGED <<config, nextHandle, dk>>

\* ---------------------------------------------------------------- lookups
\* Line 66: dict.get reads _servers and leaves it as it is.
GetServerServers(s, n) == s
\* Variant of GetServerToolsTools: the lookup inserts a missing key
\* (setdefault instead of get).
GetServerToolsTools_Insert(t, n) == IF n \in DOMAIN t THEN t ELSE ToolsSet(t, n, <<>>)
\* Line 79: dict.get reads _tools and leaves it as it is.
GetServerToolsTools(t, n) == t

\* get_server (lines 64-66): the server stored under name, or None.
GetServer(c) ==
    /\ pc[c] = "idle"
    /\ \E n \in Names :
         /\ servers' = GetServerServers(servers, n)
         /\ Finish(c, [NewCall("get_server") EXCEPT
                          !.name = n, !.pre_config = config,
                          !.retHandle = ServerGet(servers, n)],
                   "returned")
    /\ UNCHANGED <<config, tools, nextHandle, dk>>

\* get_server_tools (lines 77-79): the list cached under server_name, or
\* None.  The coroutine has no await.
GetServerTools(c) ==
    /\ pc[c] = "idle"
    /\ \E n \in Names :
         /\ tools' = GetServerToolsTools(tools, n)
         /\ Finish(c, [NewCall("get_server_tools") EXCEPT
                          !.name = n, !.pre_config = config,
                          !.retNone = (n \notin DOMAIN tools),
                          !.retTools = IF n \in DOMAIN tools THEN tools[n]
                                       ELSE <<>>],
                   "returned")
    /\ UNCHANGED <<config, servers, nextHandle, dk>>

\* ---------------------------------------------------------- get_all_tools
\* Sizes of the tool lists the servers report to the aggregation routine.
ReportSizes == {0, 3, 5}
ReportLists == UNION {[1..n -> ToolIds] : n \in ReportSizes}

\* Variant of GetAllServers: the first registered server is left out.
GetAllServers_DropFirst(s) == [i \in 1..(Len(s) - 1) |-> s[i + 1].h]
\* Line 71: list(self._servers.values())
GetAllServers(s) == [i \in 1..Len(s) |-> s[i].h]

\* MCPUtil.get_all_function_tools: the lists the given servers report,
\* joined in the order of the servers.
RECURSIVE Aggregate(_)
Aggregate(reports) ==
    IF reports = <<>> THEN <<>>
    ELSE Head(reports) \o Aggregate(Tail(reports))

\* get_all_tools up to `await MCPUtil.get_all_function_tools(...)` (line 73).
GetAllStart(c) ==
    /\ pc[c] = "idle"
    /\ Suspend(c, "get_all", Frame0,
               [NewCall("get_all") EXCEPT !.passed = GetAllServers(servers)])
    /\ UNCHANGED <<config, servers, tools, nextHandle, dk>>

\* The aggregation routine completes: it raises, or returns the joined
\* lists, which get_all_tools returns (line 75).
GetAllDone(c) ==
    /\ pc[c] = "get_all"
    /\ \/ Finish(c, call[c], "raised")
       \/ \E r \in [1..Len(call[c].passed) -> ReportLists] :
            Finish(c, [call[c] EXCEPT !.reports = r, !.result = Aggregate(r)],
                   "returned")
    /\ UNCHANGED <<config, servers, tools, nextHandle, dk>>

\* ------------------------------------------------------------------- spec
\* The step just taken by caller c, added to the run's history.
Observe(c) ==
    LET began == pc[c] = "idle"
        adding == pc'[c] = "connect"
    IN  [used |-> IF adding THEN hist.used \cup {frame'[c].name} ELSE hist.used,
         reused |-> hist.reused \/ (adding /\ frame'[c].name \in hist.used),
         connected |-> IF pc[c] = "connect" /\ pc'[c] = "list_tools"
                       THEN hist.connected \cup {frame[c].h}
                       ELSE hist.connected,
         cleaned |-> IF pc'[c] = "close_cleanup"
                     THEN hist.cleaned \cup {frame'[c].h}
                     ELSE hist.cleaned,
         loaded |-> hist.loaded \/ (began /\ call'[c].loadOK),
         loadedAtStart |-> IF began THEN hist.loaded ELSE hist.loadedAtStart,
         lastStart |-> IF began THEN c ELSE hist.lastStart,
         lastFetched |->
            IF /\ pc[c] \in {"list_tools", "refresh_fetch"}
               /\ frame[c].name \in call'[c].fetchOK
            THEN ToolsSet(hist.lastFetched, frame[c].name,
                          call'[c].fetched[frame[c].name])
            ELSE hist.lastFetched]

\* Of the step just taken by caller c, only who began the latest call.
ObserveStart(c) ==
    [hist EXCEPT !.lastStart = IF pc[c] = "idle" THEN c ELSE @]

\* One cooperative caller works on the registry, one call at a time:
\* add_server, refresh_tools and close.
NextRegistry == \E c \in SeqCallers :
    \/ AddStart(c) /\ UNCHANGED hist
    \/ ConnectDone(c) /\ UNCHANGED hist
    \/ ListToolsDone(c) /\ UNCHANGED hist
    \/ RefreshStart(c) /\ UNCHANGED hist
    \/ RefreshFetchDone(c) /\ UNCHANGED hist
    \/ CloseStart(c) /\ UNCHANGED hist
    \/ CleanupDone(c) /\ UNCHANGED hist
    \/ SleepDone(c) /\ UNCHANGED hist

SpecRegistry == Init /\ [][NextRegistry]_vars

\* The event loop resumes a suspended coroutine once the collaborator call
\* it awaits has completed, and every such call completes or raises.
FairSpec == SpecRegistry /\ WF_vars(NextRegistry)

\* One cooperative caller loads configurations and initializes from them.
NextInit == \E c \in SeqCallers :
    \/ LoadConfig(c) /\ UNCHANGED hist
    \/ InitStart(c) /\ UNCHANGED hist
    \/ ConnectDone(c) /\ UNCHANGED hist
    \/ ListToolsDone(c) /\ UNCHANGED hist

SpecInit == Init /\ [][NextInit]_vars

\* One cooperative caller drives the manager, one call at a time.
Next == NextRegistry \/ NextInit

Spec == Init /\ [][Next]_vars

\* The same caller and calls, with the run's history kept.
NextTrack == \E c \in SeqCallers :
    \/ LoadConfig(c) /\ hist' = Observe(c)
    \/ InitStart(c) /\ hist' = Observe(c)
    \/ AddStart(c) /\ hist' = Observe(c)
    \/ ConnectDone(c) /\ hist' = Observe(c)
    \/ ListToolsDone(c) /\ hist' = Observe(c)
    \/ RefreshStart(c) /\ hist' = Observe(c)
    \/ RefreshFetchDone(c) /\ hist' = Observe(c)
    \/ CloseStart(c) /\ hist' = Observe(c)
    \/ CleanupDone(c) /\ hist' = Observe(c)
    \/ SleepDone(c) /\ hist' = Observe(c)
    \/ GetServer(c) /\ hist' = Observe(c)
    \/ GetServerTools(c) /\ hist' = Observe(c)

SpecTrack == Init /\ [][NextTrack]_vars

\* The registry calls together with the lookups and get_all_tools.
NextQuery == \E c \in SeqCallers :
    \/ NextRegistry
    \/ GetServer(c) /\ UNCHANGED hist
    \/ GetServerTools(c) /\ UNCHANGED hist
    \/ GetAllStart(c) /\ UNCHANGED hist
    \/ GetAllDone(c) /\ UNCHANGED hist

SpecQuery == Init /\ [][NextQuery]_vars

\* The calls of Spec, where the caller may also cancel a running add.
NextCancel == \E c \in SeqCallers :
    \/ Next
    \/ CancelAdd(c) /\ UNCHANGED hist

SpecCancel == Init /\ [][NextCancel]_vars

\* Two tasks share the manager (line 122): one calls add_server and
\* refresh_tools, the other calls close; each runs between the awaits of
\* the other.
NextConc ==
    \/ \E c \in SeqCallers :
          \/ AddStart(c) /\ hist' = ObserveStart(c)
          \/ ConnectDone(c) /\ hist' = ObserveStart(c)
          \/ ListToolsDone(c) /\ hist' = ObserveStart(c)
          \/ RefreshStart(c) /\ hist' = ObserveStart(c)
          \/ RefreshFetchDone(c) /\ hist' = ObserveStart(c)
    \/ \E c \in Callers \ SeqCallers :
          \/ CloseStart(c) /\ hist' = ObserveStart(c)
          \/ CleanupDone(c) /\ hist' = ObserveStart(c)
          \/ SleepDone(c) /\ hist' = ObserveStart(c)

SpecConc == Init /\ [][NextConc]_vars

\* ----------------------------------------------------------- properties
\* Caller c is between calls and its last call was `op`.
Ended(c, op) == pc[c] = "idle" /\ call[c].op = op /\ call[c].status # "running"
Quiescent == \A c \in Callers : pc[c] = "idle"
EntryNames(es) == {es[i].name : i \in 1..Len(es)}
SnapHandles(s) == {s[i].h : i \in 1..Len(s)}

\* get_server (lines 64-66)
get_server(name) == ServerGet(servers, name)

\* C1: after an add_server call that failed (connect or the first
\* list_tools raised), the name is in neither _servers nor _tools,
\* whatever the registry held before the call.
C1_FailedAddAbsentFromBoth ==
    \A c \in Callers :
        (Ended(c, "add") /\ call[c].status = "raised")
        => /\ call[c].name \notin ServerNames(servers)
           /\ call[c].name \notin DOMAIN tools

\* C2: whenever no call is in progress, every name in _servers has an
\* entry in _tools.
C2_HandlesHaveCache == Quiescent => ServerNames(servers) \subseteq DOMAIN tools

\* A failed add_server has just ended while another server stays registered.
C2_Witness ==
    /\ Quiescent
    /\ \E c \in Callers : Ended(c, "add") /\ call[c].status = "raised"
                          /\ call[c].fetchFail # {}
    /\ Len(servers) >= 1

\* C3: after close() returns, _servers and _tools are both empty.
C3_CloseEmptiesBoth ==
    \A c \in Callers :
        (Ended(c, "close") /\ call[c].status = "returned")
        => servers = EmptyServers /\ DOMAIN tools = {}

\* close() returned after two servers, one whose kill() raised.
C3_Witness ==
    \E c \in Callers :
        /\ Ended(c, "close") /\ call[c].status = "returned"
        /\ Len(call[c].pre_servers) = 2
        /\ DOMAIN call[c].pre_tools # {}
        /\ \E i \in 1..Len(call[c].log) :
              call[c].log[i].op = "kill" /\ call[c].log[i].res = "raised"

\* The safety half of C4: close() never raises; while it runs it has
\* handled exactly the items before its loop position, and when it ends it
\* has handled every server that was registered when it was called.
C4_CloseHandlesAll ==
    \A c \in Callers :
        call[c].op = "close"
        => /\ call[c].status # "raised"
           /\ pc[c] \in {"close_cleanup", "close_sleep"}
                => /\ frame[c].idx \in 1..Len(frame[c].snap)
                   /\ frame[c].snap = call[c].pre_servers
                   /\ call[c].processed =
                        {frame[c].snap[j].h : j \in 1..(frame[c].idx - 1)}
           /\ pc[c] = "idle"
                => /\ call[c].status = "returned"
                   /\ call[c].processed = SnapHandles(call[c].pre_servers)

\* The liveness half of C4: a running close() ends, by returning.
C4_CloseTerminates ==
    \A c \in SeqCallers :
        (call[c].op = "close" /\ call[c].status = "running")
        ~> (Ended(c, "close") /\ call[c].status = "returned")

\* C4: close() is total: whatever cleanup(), terminate(), poll() and kill()
\* do, one call handles every registered server, terminates, and returns
\* without raising.
C4_CloseTotal == []C4_CloseHandlesAll /\ C4_CloseTerminates

\* close() ended after a terminate() that raised on one server and a
\* poll() that raised on another.
C4_Witness ==
    \E c \in Callers :
        /\ Ended(c, "close")
        /\ Cardinality(call[c].processed) = 2
        /\ \E i, j \in 1..Len(call[c].log) :
              /\ call[c].log[i].op = "terminate" /\ call[c].log[i].res = "raised"
              /\ call[c].log[j].op = "poll" /\ call[c].log[j].res = "raised"

\* C5: initialize_servers never fails because of one entry: once it has a
\* configuration with entries it returns, having attempted every entry
\* whose parameters are well formed.
C5_InitNeverFailsOnEntry ==
    \A c \in Callers :
        (Ended(c, "init") /\ Len(call[c].entries) > 0)
        => /\ call[c].status = "returned"
           /\ \A i \in 1..Len(call[c].entries) :
                 call[c].entries[i].kind = "valid"
                 => call[c].entries[i].name \in call[c].attempted

\* C6: an add_server call whose connect or first list_tools failed ends
\* by raising, and get_server(name) is None right after it.
C6_FailedAddRaises ==
    \A c \in Callers :
        (Ended(c, "add") /\ call[c].name \in call[c].connFail \cup call[c].fetchFail)
        => /\ call[c].status = "raised"
           /\ get_server(call[c].name) = NoHandle

\* connect() failed for a name that was registered before the call.
C6_Witness ==
    \E c \in Callers :
        /\ Ended(c, "add")
        /\ call[c].name \in call[c].connFail
        /\ call[c].name \in ServerNames(call[c].pre_servers)

\* C7 as stated: when initialize_servers returns, the keys of _servers are
\* exactly the configured servers whose connect succeeded in that call.
C7_KeysAreConnected ==
    \A c \in Callers :
        (Ended(c, "init") /\ call[c].status = "returned")
        => ServerNames(servers) = call[c].connOK

\* C7 amended: when initialize_servers returns, the keys of _servers are
\* the configured servers whose connect and first list_tools both succeeded
\* in that call, plus the names registered before the call that the call
\* did not fail to add.
C7_KeysAreAdded ==
    \A c \in Callers :
        (Ended(c, "init") /\ call[c].status = "returned")
        => ServerNames(servers) =
              (ServerNames(call[c].pre_servers)
                  \ (call[c].connFail \cup call[c].fetchFail))
              \cup call[c].fetchOK

\* initialize_servers returned after one entry was added and another
\* connected but failed its first list_tools.
C7_Witness ==
    \E c \in Callers :
        /\ Ended(c, "init") /\ call[c].status = "returned"
        /\ call[c].fetchOK # {}
        /\ call[c].fetchFail # {}

\* C8: after initialize_servers, an entry whose connect failed is in
\* neither _servers nor _tools, and every other entry whose connect and
\* list_tools succeeded is in both.
C8_FailedEntryAbsent ==
    \A c \in Callers :
        (Ended(c, "init") /\ call[c].status = "returned")
        => \A x \in call[c].connFail :
              /\ x \notin ServerNames(servers)
              /\ x \notin DOMAIN tools
              /\ \A y \in call[c].fetchOK \ {x} :
                    y \in ServerNames(servers) /\ y \in DOMAIN tools

\* C9: initialize_servers on an empty registry, with N well-formed entries
\* and no failing connect or list_tools, ends with exactly the N configured
\* names in _servers and in _tools.
C9_AllAdded ==
    \A c \in Callers :
        (/\ Ended(c, "init") /\ call[c].status = "returned"
         /\ call[c].pre_servers = EmptyServers
         /\ DOMAIN call[c].pre_tools = {}
         /\ \A i \in 1..Len(call[c].entries) : call[c].entries[i].kind = "valid"
         /\ call[c].connFail = {} /\ call[c].fetchFail = {})
        => /\ Len(servers) = Len(call[c].entries)
           /\ ServerNames(servers) = EntryNames(call[c].entries)
           /\ DOMAIN tools = EntryNames(call[c].entries)
           /\ Cardinality(DOMAIN tools) = Len(call[c].entries)

\* Two entries, both added, on an empty registry.
C9_Witness ==
    \E c \in Callers :
        /\ Ended(c, "init") /\ call[c].status = "returned"
        /\ call[c].pre_servers = EmptyServers
        /\ DOMAIN call[c].pre_tools = {}
        /\ Len(call[c].entries) = 2
        /\ call[c].fetchOK = EntryNames(call[c].entries)

\* C10: refresh_tools returns normally with _servers as before; every
\* registered server was fetched; a server whose fetch failed keeps the
\* list cached before the call, one whose fetch succeeded has the list
\* just fetched.
C10_RefreshKeepsStale ==
    \A c \in Callers :
        Ended(c, "refresh")
        => /\ call[c].status = "returned"
           /\ servers = call[c].pre_servers
           /\ call[c].fetchOK \cup call[c].fetchFail = ServerNames(servers)
           /\ \A n \in ServerNames(servers) :
                 /\ n \in DOMAIN tools
                 /\ n \in call[c].fetchFail
                      => n \in DOMAIN call[c].pre_tools
                         /\ tools[n] = call[c].pre_tools[n]
                 /\ n \in call[c].fetchOK => tools[n] = call[c].fetched[n]

\* The first server's fetch failed with a non-empty list cached, and the
\* second server's fetch then replaced its list by a different one.
C10_Witness ==
    \E c \in Callers :
        /\ Ended(c, "refresh")
        /\ Len(servers) = 2
        /\ servers[1].name \in call[c].fetchFail
        /\ tools[servers[1].name] # <<>>
        /\ servers[2].name \in call[c].fetchOK
        /\ tools[servers[2].name] # call[c].pre_tools[servers[2].name]

\* C11: get_server_tools(name) is None whenever name is not in _servers,
\* and otherwise is the list the latest successful list_tools() of
\* add_server or refresh_tools returned for name.
C11_ToolsLookup ==
    \A c \in Callers :
        Ended(c, "get_server_tools")
        => LET n == call[c].name IN
           /\ n \notin ServerNames(servers) => call[c].retNone
           /\ n \in ServerNames(servers)
                => /\ ~call[c].retNone
                   /\ n \in DOMAIN hist.lastFetched
                   /\ call[c].retTools = hist.lastFetched[n]

\* C12: an add_server that succeeds for a registered name replaces the
\* entry: get_server(name) is the new server, the cached list is the one
\* it reported, the other names keep their server and list, and no
\* cleanup() was called on the replaced server.
C12_AddReplaces ==
    \A c \in Callers :
        (/\ Ended(c, "add") /\ call[c].status = "returned"
         /\ call[c].name \in ServerNames(call[c].pre_servers))
        => LET n == call[c].name
               old == ServerGet(call[c].pre_servers, n)
           IN
           /\ get_server(n) = call[c].h
           /\ Len(servers) = Len(call[c].pre_servers)
           /\ n \in DOMAIN tools /\ tools[n] = call[c].fetched[n]
           /\ \A m \in Names \ {n} :
                 /\ ServerGet(servers, m) = ServerGet(call[c].pre_servers, m)
                 /\ m \in DOMAIN tools <=> m \in DOMAIN call[c].pre_tools
                 /\ m \in DOMAIN tools => tools[m] = call[c].pre_tools[m]
           /\ \A i \in 1..Len(call[c].log) :
                 ~(call[c].log[i].h = old /\ call[c].log[i].op = "cleanup")

\* A registered name was added again, next to another registered name,
\* and the new server reported a different list.
C12_Witness ==
    \E c \in Callers :
        /\ Ended(c, "add") /\ call[c].status = "returned"
        /\ call[c].name \in ServerNames(call[c].pre_servers)
        /\ Len(servers) = 2
        /\ tools[call[c].name] # call[c].pre_tools[call[c].name]

RECURSIVE SumLen(_)
SumLen(lists) == IF lists = <<>> THEN 0 ELSE Len(Head(lists)) + SumLen(Tail(lists))

\* C13 as stated: get_all_tools hands the aggregation routine exactly the
\* servers in _servers at the call, each server once; what it returns is
\* as long as the lists those servers report together; _servers and _tools
\* stay as they were.
C13_GetAllAggregates ==
    \A c \in Callers :
        Ended(c, "get_all")
        => /\ servers = call[c].pre_servers
           /\ tools = call[c].pre_tools
           /\ call[c].passed = [i \in 1..Len(servers) |-> servers[i].h]
           /\ Cardinality({call[c].passed[i] : i \in 1..Len(call[c].passed)})
                 = Len(call[c].passed)
           /\ call[c].status = "returned"
                => /\ Len(call[c].reports) = Len(servers)
                   /\ Len(call[c].result) = SumLen(call[c].reports)

\* C13 amended: get_all_tools hands the aggregation routine the values of
\* _servers at the call, one for each registered name in the order of the
\* names, so each server once when no server is registered under two
\* names; what it returns is as long as the lists reported for them
\* together; _servers and _tools stay as they were.
C13_GetAllPerName ==
    \A c \in Callers :
        Ended(c, "get_all")
        => /\ servers = call[c].pre_servers
           /\ tools = call[c].pre_tools
           /\ call[c].passed = [i \in 1..Len(servers) |-> servers[i].h]
           /\ Len(call[c].passed) = Cardinality(ServerNames(servers))
           /\ Cardinality(SnapHandles(servers)) = Len(servers)
                => Cardinality({call[c].passed[i] : i \in 1..Len(call[c].passed)})
                      = Len(call[c].passed)
           /\ call[c].status = "returned"
                => /\ Len(call[c].reports) = Len(servers)
                   /\ Len(call[c].result) = SumLen(call[c].reports)

\* Servers a and b are registered and report 3 and 5 tools: 8 are returned.
C13_Witness ==
    \E c \in Callers :
        /\ Ended(c, "get_all") /\ call[c].status = "returned"
        /\ ServerNames(servers) = {"a", "b"}
        /\ \E i, j \in 1..Len(servers) :
              /\ servers[i].name = "a" /\ Len(call[c].reports[i]) = 3
              /\ servers[j].name = "b" /\ Len(call[c].reports[j]) = 5
        /\ Len(call[c].result) = 8

\* C14: get_server and get_server_tools always return, leave _servers,
\* _tools and _config as they were, and call no collaborator.
C14_LookupsPure ==
    \A c \in Callers :
        (Ended(c, "get_server") \/ Ended(c, "get_server_tools"))
        => /\ call[c].status = "returned"
           /\ servers = call[c].pre_servers
           /\ tools = call[c].pre_tools
           /\ config = call[c].pre_config
           /\ call[c].log = <<>>
           /\ call[c].connOK \cup call[c].connFail = {}
           /\ call[c].fetchOK \cup call[c].fetchFail = {}

\* get_server_tools was asked for a name without a cached list while
\* another server is registered.
C14_Witness ==
    \E c \in Callers :
        /\ Ended(c, "get_server_tools")
        /\ call[c].retNone
        /\ call[c].name \notin DOMAIN tools
        /\ Len(servers) >= 1

\* C15: when initialize_servers is aborted at an await, the servers it had
\* added stay in _servers and every name in _servers has an entry in _tools.
C15_AbortLeavesValidState ==
    \A c \in Callers :
        (Ended(c, "init") /\ call[c].status = "cancelled")
        => /\ call[c].fetchOK \subseteq ServerNames(servers)
           /\ ServerNames(servers) \subseteq DOMAIN tools

\* C16 as stated, server by server: the first call close makes on a
\* server is cleanup(); terminate() is called on it only after a cleanup()
\* of it raised and a process was found; kill() only after terminate(),
\* the sleep and a poll() that found the process running; a server whose
\* cleanup() succeeded is never terminated or killed.
C16_PerServerOrder ==
    \A c \in Callers :
        call[c].op = "close"
        => LET L == call[c].log IN
           \A i \in 1..Len(L) :
              /\ (\A j \in 1..(i - 1) : L[j].h # L[i].h) => L[i].op = "cleanup"
              /\ L[i].op = "terminate"
                   => /\ i > 2
                      /\ L[i - 1].h = L[i].h
                      /\ L[i - 1].op = "process" /\ L[i - 1].res = "yes"
                      /\ L[i - 2].h = L[i].h
                      /\ L[i - 2].op = "cleanup" /\ L[i - 2].res = "raised"
              /\ L[i].op = "kill"
                   => /\ i > 3
                      /\ L[i - 1].h = L[i].h
                      /\ L[i - 1].op = "poll" /\ L[i - 1].res = "running"
                      /\ L[i - 2].op = "sleep"
                      /\ L[i - 3].h = L[i].h
                      /\ L[i - 3].op = "terminate" /\ L[i - 3].res = "ok"
              /\ (L[i].op = "cleanup" /\ L[i].res = "ok")
                   => \A j \in 1..Len(L) :
                         L[j].h = L[i].h => L[j].op \notin {"terminate", "kill"}

\* C16 amended, item by item of _servers: for every registered name close
\* handles, cleanup() of its server comes first; terminate() is called
\* only after that cleanup() raised and a process was found; kill() only
\* after terminate(), the sleep and a poll() that found the process
\* running; after a cleanup() that succeeded nothing more is done for
\* that name.
C16_ShutdownOrder ==
    \A c \in Callers :
        call[c].op = "close"
        => LET L == call[c].log IN
           \A i \in 1..Len(L) :
              /\ L[i].op = "cleanup" => \A j \in 1..(i - 1) : L[j].name # L[i].name
              /\ L[i].op # "cleanup"
                   => i > 1 /\ L[i - 1].name = L[i].name /\ L[i - 1].h = L[i].h
              /\ L[i].op = "process"
                   => L[i - 1].op = "cleanup" /\ L[i - 1].res = "raised"
              /\ L[i].op = "terminate"
                   => L[i - 1].op = "process" /\ L[i - 1].res = "yes"
              /\ L[i].op = "sleep"
                   => L[i - 1].op = "terminate" /\ L[i - 1].res = "ok"
              /\ L[i].op = "poll" => L[i - 1].op = "sleep"
              /\ L[i].op = "kill"
                   => L[i - 1].op = "poll" /\ L[i - 1].res = "running"
              /\ (L[i].op = "cleanup" /\ L[i].res = "ok")
                   => i = Len(L) \/ L[i + 1].name # L[i].name

\* close() handled one server whose cleanup() succeeded and another whose
\* process had to be killed.
C16_Witness ==
    \E c \in Callers :
        /\ Ended(c, "close")
        /\ \E i, j \in 1..Len(call[c].log) :
              /\ call[c].log[i].op = "cleanup" /\ call[c].log[i].res = "ok"
              /\ call[c].log[j].op = "kill" /\ call[c].log[j].res = "ok"
              /\ call[c].log[i].h # call[c].log[j].h

\* C17: initialize_servers calls load_config exactly when no configuration
\* has been loaded before; a configuration loaded earlier is the one used.
C17_LoadsIffUnloaded ==
    \A c \in Callers :
        Ended(c, "init")
        => /\ call[c].loads = 1 <=> ~hist.loadedAtStart
           /\ hist.loadedAtStart => call[c].entries = config.servers

\* Entries of the configuration whose add_server has ended in this call.
InitFinished(c) == call[c].connFail \cup call[c].fetchOK \cup call[c].fetchFail

\* C18: while initialize_servers awaits connect() or list_tools() for entry
\* i of the configuration, add_server has been called for entries 1..i and
\* for no other, it has ended for entries 1..i-1, and no other collaborator
\* call is in flight.
C18_OneAtATime ==
    /\ Cardinality({c \in Callers : pc[c] # "idle"}) <= 1
    /\ \A c \in Callers :
          (call[c].op = "init" /\ pc[c] \in {"connect", "list_tools"})
          => LET i == frame[c].idx
                 E == call[c].entries
             IN
             /\ i \in 1..Len(E)
             /\ frame[c].name = E[i].name
             /\ call[c].attempted = {E[j].name : j \in 1..i}
             /\ \A j \in 1..(i - 1) : E[j].name \in InitFinished(c)
             /\ E[i].name \notin InitFinished(c)
             /\ pc[c] = "list_tools" <=> E[i].name \in call[c].connOK

\* The second entry's connect() is awaited after the first entry's
\* list_tools() has failed.
C18_Witness ==
    \E c \in Callers :
        /\ call[c].op = "init" /\ pc[c] = "connect"
        /\ frame[c].idx = 2
        /\ call[c].entries[1].name \in call[c].fetchFail

\* C19: as long as no name has been used twice, every server whose
\* connect() succeeded is in _servers or has had cleanup() called on it.
C19_NoLeak ==
    ~hist.reused
    => \A h \in hist.connected :
          h \in SnapHandles(servers) \/ h \in hist.cleaned

\* C20: when close() and an add_server or refresh_tools of another task
\* have both ended, close() having begun last and no connect() or
\* list_tools() having failed, both calls have returned and _servers and
\* _tools are empty.
C20_CloseInterleaved ==
    \A c, d \in Callers :
        (/\ c # d
         /\ Ended(c, "close")
         /\ Ended(d, "add") \/ Ended(d, "refresh")
         /\ hist.lastStart = c
         /\ call[d].connFail \cup call[d].fetchFail = {})
        => /\ call[c].status = "returned"
           /\ call[d].status = "returned"
           /\ servers = EmptyServers
           /\ DOMAIN tools = {}

====
